---------------------------- MODULE Spec2Model ----------------------------
(***************************************************************************)
(* custom::vector<T> (src/vector.h) and custom::priority_queue<T>          *)
(* (src/priority_queue.h), with T = int.                                   *)
(*                                                                         *)
(* A vector object is a record of its three private fields (data,          *)
(* numCapacity, numElements); data is an address into the free store mem,  *)
(* or NULL.  Every member function is an operator from a "world" record    *)
(* (the objects, the free store, and the registers of the running call)    *)
(* to the world after the call, so that functions compose the way the      *)
(* calls in the source nest.  An action is one call made by client code.   *)
(***************************************************************************)
EXTENDS Integers, Sequences, FiniteSets, TLC

\* ------------------------------------------------------------- bounds
MaxSize == 5      \* push is offered while size() < MaxSize
MaxVal  == 2      \* element values are 0..MaxVal
MaxBuf  == 4      \* addresses of the free store
MaxLen  == 4      \* length of the sequences drawn as inputs
MaxCalls == 5     \* calls made by a client that holds two objects
MaxRange == 3     \* length of an iterator range
MaxUse   == 2     \* calls made on a queue built from a range
MaxOps   == 2     \* calls made on arrays after their construction
MaxArg   == 2     \* a count passed to an array: 0..MaxArg

Values == 0..MaxVal
Addr   == 1..MaxBuf

\* ------------------------------------------------------------- free store
NULL   == 0       \* nullptr
Uninit == -1      \* the indeterminate value of an int slot of new T[n]

Objs == {"lhs", "rhs", "arr", "tmp"}

FreeBuf == [live |-> FALSE, cells |-> <<>>]
NoVec   == [data |-> NULL, numCapacity |-> 0, numElements |-> 0]

\* The traversing client before any traversal: a default-constructed
\* iterator (p = nullptr), nothing read.
NoWalk == [dir |-> "none", it |-> [a |-> NULL, i |-> 0], seen |-> <<>>,
           round |-> 0]

VARIABLES
  vec,      \* vec[o]: the fields of vector object o (a queue's container)
  mem,      \* mem[a]: the array at address a: live?, and its slots
  built,    \* the objects whose lifetime has begun
  call,     \* the last call made by the client: [op, obj, arg]
  result,   \* what that call returned: [kind, val]
  acc,      \* the storage indices that call passed to the container
  fault,    \* "none", or the undefined behaviour that ended the program
  pre,      \* the objects and the free store as they were before that call
  input,    \* the values the fill-and-drain client pushes, in order
  popped,   \* the values that client read by top(), in order
  calls,    \* how many calls the two-object clients have made
  walk,     \* the traversing client's iterator and what it has read
  wild      \* that call passed the container an index outside [0, size())

vars == <<vec, mem, built, call, result, acc, fault, pre, input, popped, calls,
          walk, wild>>

Min(S) == CHOOSE x \in S : \A y \in S : x <= y

\* The world at the start of a client call.
World == [vec |-> vec, mem |-> mem, fault |-> "none", oom |-> FALSE,
          exc |-> "none", ret |-> 0, changed |-> FALSE, acc |-> {},
          lenient |-> FALSE, junk |-> 0, wild |-> FALSE]

\* An access outside a live array has undefined behaviour.  Through a null
\* pointer the program ends.  Otherwise it ends (a hardened build, a heap
\* check) or runs on: the world is then `lenient`, a stray write or a
\* repeated delete[] is lost and a stray read yields w.junk.
Astray(l, j) == [World EXCEPT !.lenient = l, !.junk = j]

Ok(w) == w.fault = "none" /\ ~w.oom /\ w.exc = "none"

Fault(w, f) == IF Ok(w) THEN [w EXCEPT !.fault = f] ELSE w

Stray(w, f) == IF w.lenient /\ f # "null_deref" THEN w ELSE Fault(w, f)

\* n slots of indeterminate value
RECURSIVE Blank(_)
Blank(n) == IF n <= 0 THEN <<>> ELSE Append(Blank(n - 1), Uninit)

\* new T[n]: a fresh array of n indeterminate ints; its address in w.ret.
\* The address is the least one that is neither live nor still held by an
\* object (so a dangling pointer stays recognisable).
NewArray(w, n) ==
  LET free == {a \in Addr : ~w.mem[a].live /\ \A o \in Objs : w.vec[o].data # a}
  IN IF ~Ok(w) THEN w
     ELSE IF free = {} THEN [w EXCEPT !.oom = TRUE]
     ELSE LET a == Min(free)
          IN [w EXCEPT !.mem[a] = [live |-> TRUE, cells |-> Blank(n)],
                       !.ret = a]

\* delete[] p
DeleteArray(w, p) ==
  IF ~Ok(w) \/ p = NULL THEN w
  ELSE IF ~w.mem[p].live THEN Stray(w, "double_free")
  ELSE [w EXCEPT !.mem[p] = FreeBuf]

\* What is wrong with the lvalue p[i], if anything.
BadSlot(w, p, i) ==
  IF p = NULL THEN "null_deref"
  ELSE IF ~w.mem[p].live THEN "use_after_free"
  ELSE IF i < 0 \/ i >= Len(w.mem[p].cells) THEN "out_of_bounds"
  ELSE "none"

\* p[i] read: the value in w.ret.
Load(w, p, i) ==
  IF ~Ok(w) THEN w
  ELSE IF BadSlot(w, p, i) # "none"
       THEN [Stray(w, BadSlot(w, p, i)) EXCEPT !.ret = w.junk]
  ELSE [w EXCEPT !.ret = w.mem[p].cells[i + 1]]

\* p[i] = v
Store(w, p, i, v) ==
  IF ~Ok(w) THEN w
  ELSE IF BadSlot(w, p, i) # "none" THEN Stray(w, BadSlot(w, p, i))
  ELSE [w EXCEPT !.mem[p].cells[i + 1] = v]

\* for (i = from; i < to; i++) dst[i] = src[i];
RECURSIVE CopyLoop(_, _, _, _, _)
CopyLoop(w, dst, src, from, to) ==
  IF from >= to \/ ~Ok(w) THEN w
  ELSE LET r == Load(w, src, from)
       IN CopyLoop(Store(r, dst, from, r.ret), dst, src, from + 1, to)

\* for (i = from; i < to; i++) p[i] = v;
RECURSIVE FillLoop(_, _, _, _, _)
FillLoop(w, p, from, to, v) ==
  IF from >= to \/ ~Ok(w) THEN w
  ELSE FillLoop(Store(w, p, from, v), p, from + 1, to, v)

\* The operands of a comparison are used as values: an indeterminate one
\* is undefined behaviour.
Use(w, a, b) == IF a = Uninit \/ b = Uninit THEN Fault(w, "uninit_read") ELSE w

\* ------------------------------------------------------------- vector.h
size(w, o)     == w.vec[o].numElements
capacity(w, o) == w.vec[o].numCapacity
empty(w, o)    == w.vec[o].numElements = 0

\* vector::vector()
vector_ctor_default(w, o) == [w EXCEPT !.vec[o] = NoVec]

\* vector::vector(const std::initializer_list<T>& l)
vector_ctor_list(w, o, l) ==
  LET a  == NewArray(w, Len(l))
      w1 == [a EXCEPT !.vec[o].data = a.ret]
      w2 == IF Ok(w1)
            THEN [w1 EXCEPT !.mem[a.ret].cells = l]      \* std::copy
            ELSE w1
  IN [w2 EXCEPT !.vec[o].numCapacity = Len(l), !.vec[o].numElements = Len(l)]

\* vector::vector(size_t num, const T& t)
vector_ctor_fill(w, o, num, t) ==
  LET w1 == IF num > 0
            THEN LET a == NewArray(w, num)
                 IN FillLoop([a EXCEPT !.vec[o].data = a.ret], a.ret, 0, num, t)
            ELSE [w EXCEPT !.vec[o].data = NULL]
  IN [w1 EXCEPT !.vec[o].numCapacity = num, !.vec[o].numElements = num]

\* vector::vector(size_t num): every element is T(), for int 0
vector_ctor_size(w, o, num) == vector_ctor_fill(w, o, num, 0)

\* vector::vector(const vector& rhs);  the loop runs while i <= numElements
vector_ctor_copy(w, o, rhs) ==
  LET n  == w.vec[rhs].numElements
      w1 == IF n > 0
            THEN LET a == NewArray(w, n)
                 IN CopyLoop([a EXCEPT !.vec[o].data = a.ret],
                             a.ret, w.vec[rhs].data, 0, n + 1)
            ELSE [w EXCEPT !.vec[o].data = NULL]
  IN [w1 EXCEPT !.vec[o].numCapacity = n, !.vec[o].numElements = n]

\* void vector::swap(vector& rhs)
vector_swap(w, o, rhs) ==
  [w EXCEPT !.vec[o] = w.vec[rhs], !.vec[rhs] = w.vec[o]]

\* vector::vector(vector&& rhs)
vector_ctor_move(w, o, rhs) ==
  LET w1 == [w EXCEPT !.vec[o] =
               [data        |-> IF w.vec[rhs].numElements > 0
                                THEN w.vec[rhs].data ELSE NULL,
                numCapacity |-> w.vec[rhs].numCapacity,
                numElements |-> w.vec[rhs].numElements]]
  IN [w1 EXCEPT !.vec[rhs] = NoVec]

\* vector::~vector()
vector_dtor(w, o) ==
  LET w1 == DeleteArray(w, w.vec[o].data)
  IN [w1 EXCEPT !.vec[o] = NoVec]

\* operator= copying the pointer instead of the elements
vector_assign_shallow(w, o, rhs) ==
  IF o = rhs THEN w
  ELSE [w EXCEPT !.vec[o] = w.vec[rhs]]

\* vector& vector::operator=(const vector& rhs)
vector_assign_copy(w, o, rhs) ==
  IF o = rhs THEN w
  ELSE IF w.vec[rhs].data = NULL THEN [w EXCEPT !.vec[o].data = NULL]
  ELSE LET w1 == DeleteArray(w, w.vec[o].data)
           w2 == [w1 EXCEPT !.vec[o].numElements = w.vec[rhs].numElements]
           w3 == IF w2.vec[rhs].numCapacity > w2.vec[o].numCapacity
                 THEN [w2 EXCEPT !.vec[o].numCapacity = w2.vec[rhs].numCapacity]
                 ELSE w2
           a  == NewArray(w3, w3.vec[o].numCapacity)
           w4 == [a EXCEPT !.vec[o].data = a.ret]
       IN CopyLoop(w4, w4.vec[o].data, w4.vec[rhs].data, 0, w4.vec[o].numElements)

\* vector& vector::operator=(vector&& rhs)
vector_assign_move(w, o, rhs) ==
  IF w.vec[o].data # NULL
  THEN LET w1 == DeleteArray(w, w.vec[o].data)
           w2 == [w1 EXCEPT !.vec[o] = w1.vec[rhs]]
       IN [w2 EXCEPT !.vec[rhs] = NoVec]
  ELSE w

\* void vector::push_back(const T& t)
push_back(w, o, t) ==
  LET v  == w.vec[o]
      w1 == IF v.numElements >= v.numCapacity
            THEN LET c  == [w EXCEPT !.vec[o].numCapacity =
                              IF v.data = NULL THEN 1 ELSE v.numCapacity * 2]
                     a  == NewArray(c, c.vec[o].numCapacity)
                     cp == CopyLoop(a, a.ret, v.data, 0, v.numElements)
                     d  == DeleteArray(cp, v.data)
                 IN [d EXCEPT !.vec[o].data = a.ret]
            ELSE w
      w2 == Store(w1, w1.vec[o].data, w1.vec[o].numElements, t)
  IN [w2 EXCEPT !.vec[o].numElements = @ + 1]

\* void vector::push_back(T&& t): the same statements
push_back_move(w, o, t) == push_back(w, o, t)

\* pop_back giving up the slot it frees
pop_back_trim(w, o) ==
  IF w.vec[o].numElements > 0
  THEN [w EXCEPT !.vec[o].numElements = @ - 1, !.vec[o].numCapacity = @ - 1]
  ELSE w

\* void vector::pop_back()
pop_back(w, o) ==
  IF w.vec[o].numElements > 0
  THEN [w EXCEPT !.vec[o].numElements = @ - 1]
  ELSE w

\* reserve that does nothing
reserve_nothing(w, o, newCapacity) == w

\* void vector::reserve(size_t newCapacity)
reserve(w, o, newCapacity) ==
  IF newCapacity = 0 THEN w
  ELSE LET a  == NewArray(w, newCapacity)
           cp == CopyLoop(a, a.ret, w.vec[o].data, 0, w.vec[o].numElements)
           c  == [cp EXCEPT !.vec[o].numCapacity = newCapacity]
           d  == DeleteArray(c, w.vec[o].data)
       IN IF Ok(d) THEN [d EXCEPT !.vec[o].data = a.ret] ELSE d

\* void vector::resize(size_t newElements);  int t = NULL is 0
resize(w, o, newElements) ==
  IF newElements = 0 THEN [w EXCEPT !.vec[o].numElements = 0]
  ELSE LET v  == w.vec[o]
           a  == NewArray(w, newElements)
           cp == CopyLoop(a, a.ret, v.data, 0, v.numElements)
           w1 == IF newElements > v.numCapacity
                 THEN [FillLoop(cp, a.ret, v.numElements, newElements, 0)
                         EXCEPT !.vec[o].numCapacity = newElements]
                 ELSE cp
           w2 == [w1 EXCEPT !.vec[o].numElements = newElements]
           d  == DeleteArray(w2, v.data)
       IN IF Ok(d) THEN [d EXCEPT !.vec[o].data = a.ret] ELSE d

\* void vector::resize(size_t newElements, const T& t)
resize_fill(w, o, newElements, t) ==
  LET v  == w.vec[o]
      a  == NewArray(w, newElements)
      cp == CopyLoop(a, a.ret, v.data, 0, v.numElements)
      w1 == IF newElements > v.numCapacity
            THEN FillLoop(cp, a.ret, v.numElements, newElements, t)
            ELSE cp
      w2 == [w1 EXCEPT !.vec[o].numCapacity = newElements,
                       !.vec[o].numElements = newElements]
      d  == DeleteArray(w2, v.data)
  IN IF Ok(d) THEN [d EXCEPT !.vec[o].data = a.ret] ELSE d

\* void vector::shrink_to_fit()
shrink_to_fit(w, o) ==
  LET v == w.vec[o]
  IN IF v.numElements = v.numCapacity THEN w
     ELSE IF v.numElements = 0
     THEN LET d == DeleteArray(w, v.data)
          IN IF Ok(d) THEN [d EXCEPT !.vec[o].data = NULL,
                                     !.vec[o].numCapacity = 0]
             ELSE d
     ELSE LET a  == NewArray(w, v.numElements)
              cp == CopyLoop(a, a.ret, v.data, 0, v.numElements)
              d  == DeleteArray(cp, v.data)
          IN IF Ok(d) THEN [d EXCEPT !.vec[o].data = a.ret,
                                     !.vec[o].numCapacity = v.numElements]
             ELSE d

\* void vector::clear()
clear(w, o) ==
  LET d == DeleteArray(w, w.vec[o].data)
  IN IF Ok(d) THEN [d EXCEPT !.vec[o].numElements = 0] ELSE d

\* T& vector::operator[](size_t index): the reference data[index].  A
\* reference is the slot's index, left in w.ret; the call is logged in acc.
subscript(w, o, index) ==
  [w EXCEPT !.ret = index, !.acc = @ \cup {index},
            !.wild = @ \/ index < 0 \/ index >= size(w, o)]

\* T& vector::front()
front(w, o) == subscript(w, o, 0)

\* T& vector::back(): data[numElements - 1]  (size_t: on an empty vector the
\* index wraps to SIZE_MAX, which like -1 here is outside every array)
back(w, o) == subscript(w, o, w.vec[o].numElements - 1)

\* Reading and writing through such a reference.
Get(w, o, slot)    == Load(w, w.vec[o].data, slot)
Put(w, o, slot, v) == Store(w, w.vec[o].data, slot, v)

\* std::swap(T&, T&) on the references to slots i and j of o
std_swap_T(w, o, i, j) ==
  LET a == Get(w, o, i)
      b == Get(a, o, j)
  IN Put(Put(b, o, i, b.ret), o, j, a.ret)

\* std::swap(vector&, vector&): the generic one, through a temporary
\*    T tmp(std::move(a)); a = std::move(b); b = std::move(tmp);
std_swap_vector(w, a, b) ==
  LET w1 == vector_ctor_move(w, "tmp", a)
      w2 == vector_assign_move(w1, a, b)
      w3 == vector_assign_move(w2, b, "tmp")
  IN vector_dtor(w3, "tmp")

\* ------------------------------------------------------------- temp.h
\* The allocator-based vector of temp.h, on the same free store:
\* alloc.allocate(n) gives n slots of indeterminate value, placement new
\* writes a slot, alloc.destroy of an int does nothing.
\* assert(c): the program is aborted when c is false
temp_assert(w, c) == IF c THEN w ELSE Fault(w, "assert")

\* void vector::reserve(size_t newCapacity)
temp_reserve(w, o, newCapacity) ==
  LET v == w.vec[o]
  IN IF newCapacity <= v.numCapacity THEN w
     ELSE LET a  == NewArray(w, newCapacity)
              cp == CopyLoop(a, a.ret, v.data, 0, v.numElements)
              d  == IF v.data # NULL THEN DeleteArray(cp, v.data) ELSE cp
          IN IF Ok(d) THEN [d EXCEPT !.vec[o].data = a.ret,
                                     !.vec[o].numCapacity = newCapacity]
             ELSE d

\* void vector::push_back(const T& t)
temp_push_back(w, o, t) ==
  LET v  == w.vec[o]
      w0 == temp_assert(w, v.numElements <= v.numCapacity)
      w1 == IF v.numCapacity = 0 THEN temp_reserve(w0, o, 1)
            ELSE IF v.numElements = v.numCapacity
                 THEN temp_reserve(w0, o, v.numCapacity * 2)
            ELSE w0
      w2 == temp_assert(w1, w1.vec[o].numElements < w1.vec[o].numCapacity)
      w3 == Store(w2, w2.vec[o].data, w2.vec[o].numElements, t)
  IN IF Ok(w3) THEN [w3 EXCEPT !.vec[o].numElements = @ + 1] ELSE w3

\* void vector::pop_back()
temp_pop_back(w, o) ==
  IF w.vec[o].numElements # 0
  THEN [w EXCEPT !.vec[o].numElements = @ - 1]
  ELSE w

\* a shrink_to_fit that does nothing
temp_shrink_nothing(w, o) == w

\* void vector::shrink_to_fit()
temp_shrink_to_fit(w, o) ==
  LET v == w.vec[o]
  IN IF v.numCapacity = v.numElements THEN w
     ELSE LET a  == IF v.numElements # 0
                    THEN NewArray(w, v.numElements)
                    ELSE [w EXCEPT !.ret = NULL]
              cp == CopyLoop(a, a.ret, v.data, 0, v.numElements)
              d  == IF v.data # NULL THEN DeleteArray(cp, v.data) ELSE cp
          IN IF Ok(d) THEN [d EXCEPT !.vec[o].data = a.ret,
                                     !.vec[o].numCapacity = v.numElements]
             ELSE d

\* ------------------------------------------------------------- priority_queue.h
\* A queue is named by its one member, the vector `container`.

\* bool priority_queue::percolateDown(size_t indexHeap); the bool in w.changed
RECURSIVE percolateDown(_, _, _)

\* percolateDown with the right child never looked at
percolateDown_left_only(w, q, indexHeap) ==
  LET indexLeft == indexHeap * 2
  IN
  IF ~Ok(w) THEN w
  ELSE IF indexLeft > size(w, q) THEN [w EXCEPT !.changed = FALSE]
  ELSE
    LET h  == Get(subscript(w, q, indexHeap - 1), q, indexHeap - 1)
        b  == Get(subscript(h, q, indexLeft - 1), q, indexLeft - 1)
        w2 == Use(b, h.ret, b.ret)
    IN IF ~Ok(w2) THEN w2
       ELSE IF h.ret < b.ret
       THEN LET s  == std_swap_T(subscript(subscript(w2, q, indexHeap - 1),
                                           q, indexLeft - 1),
                                 q, indexHeap - 1, indexLeft - 1)
                w3 == percolateDown(s, q, indexLeft)
            IN [w3 EXCEPT !.changed = TRUE]
       ELSE [w2 EXCEPT !.changed = FALSE]

percolateDown(w, q, indexHeap) ==
  LET indexLeft  == indexHeap * 2
      indexRight == indexLeft + 1
  IN
  IF ~Ok(w) THEN w
  ELSE IF indexLeft > size(w, q) THEN [w EXCEPT !.changed = FALSE]
  ELSE
    LET \* container[indexLeft - 1] < container[indexRight - 1] ? right : left
        l  == Get(subscript(w, q, indexLeft - 1), q, indexLeft - 1)
        r  == Get(subscript(l, q, indexRight - 1), q, indexRight - 1)
        w1 == IF indexRight <= size(w, q) THEN Use(r, l.ret, r.ret) ELSE w
        indexBigger == IF indexRight <= size(w, q)
                       THEN (IF l.ret < r.ret THEN indexRight ELSE indexLeft)
                       ELSE indexLeft
        \* container[indexHeap - 1] < container[indexBigger - 1]
        h  == Get(subscript(w1, q, indexHeap - 1), q, indexHeap - 1)
        b  == Get(subscript(h, q, indexBigger - 1), q, indexBigger - 1)
        w2 == Use(b, h.ret, b.ret)
    IN IF ~Ok(w2) THEN w2
       ELSE IF h.ret < b.ret
       THEN LET s  == std_swap_T(subscript(subscript(w2, q, indexHeap - 1),
                                           q, indexBigger - 1),
                                 q, indexHeap - 1, indexBigger - 1)
                w3 == percolateDown(s, q, indexBigger)
            IN [w3 EXCEPT !.changed = TRUE]
       ELSE [w2 EXCEPT !.changed = FALSE]

\* void priority_queue::heapify():  for (i = size() / 2; i > 0; i--)
RECURSIVE heapify_from(_, _, _)
heapify_from(w, q, i) ==
  IF i > 0 /\ Ok(w) THEN heapify_from(percolateDown(w, q, i), q, i - 1) ELSE w

\* heapify that sifts the root only
heapify_root(w, q) == percolateDown(w, q, 1)

heapify(w, q) == heapify_from(w, q, size(w, q) \div 2)

\* priority_queue::priority_queue()
pq_ctor_default(w, q) == vector_ctor_default(w, q)

\* priority_queue::priority_queue(const priority_queue& rhs)
pq_ctor_copy(w, q, rhs) == vector_assign_copy(vector_ctor_default(w, q), q, rhs)

\* priority_queue::priority_queue(priority_queue&& rhs)
pq_ctor_move(w, q, rhs) == vector_assign_move(vector_ctor_default(w, q), q, rhs)

\* for (auto it = first; it != last; it++) container.push_back(*it);
\* the range [first, last) is the sequence l, it is at l[k]
RECURSIVE range_loop(_, _, _, _)
range_loop(w, q, l, k) ==
  IF k > Len(l) \/ ~Ok(w) THEN w
  ELSE range_loop(push_back(w, q, l[k]), q, l, k + 1)

\* priority_queue::priority_queue(Iterator first, Iterator last)
pq_ctor_range(w, q, l) ==
  range_loop(reserve(vector_ctor_default(w, q), q, Len(l)), q, l, 1)

\* priority_queue::priority_queue(custom::vector<T>&& rhs)
pq_ctor_vector_move(w, q, rhs) ==
  heapify(vector_assign_move(vector_ctor_default(w, q), q, rhs), q)

\* priority_queue::priority_queue(custom::vector<T>& rhs)
pq_ctor_vector_ref(w, q, rhs) ==
  vector_assign_move(vector_ctor_default(w, q), q, rhs)

\* top() answering with the last element instead of the first
top_back(w, q) ==
  IF empty(w, q)
  THEN [w EXCEPT !.exc = "out_of_range"]
  ELSE LET b == back(w, q) IN Get(b, q, b.ret)

\* top() without the check for an empty queue
top_unchecked(w, q) == LET f == front(w, q) IN Get(f, q, f.ret)

\* const T& priority_queue::top() const; the value read through it in w.ret
top(w, q) ==
  IF empty(w, q)
  THEN [w EXCEPT !.exc = "out_of_range"]
  ELSE LET f == front(w, q) IN Get(f, q, f.ret)

\* pop() without the swap of root and last element
pop_no_swap(w, q) == percolateDown(pop_back(w, q), q, 1)

\* pop() swapping front() and back() whether or not the queue is empty
pop_unguarded(w, q) ==
  LET f == front(w, q)
      b == back(f, q)
  IN percolateDown(pop_back(std_swap_T(b, q, f.ret, b.ret), q), q, 1)

\* void priority_queue::pop()
pop(w, q) ==
  LET w1 == IF ~empty(w, q)
            THEN LET f == front(w, q)
                     b == back(f, q)
                 IN std_swap_T(b, q, f.ret, b.ret)
            ELSE w
  IN percolateDown(pop_back(w1, q), q, 1)

\* the loop of push as an if: one comparison with the parent, one swap
push_loop_once(w, q, i) ==
  IF i > 1 /\ Ok(w)
  THEN LET c  == Get(subscript(w, q, i - 1), q, i - 1)
           p  == Get(subscript(c, q, (i \div 2) - 1), q, (i \div 2) - 1)
           w1 == Use(p, c.ret, p.ret)
       IN IF Ok(w1) /\ c.ret > p.ret
          THEN std_swap_T(subscript(subscript(w1, q, i - 1), q, (i \div 2) - 1),
                          q, i - 1, (i \div 2) - 1)
          ELSE w1
  ELSE w

\* while (i > 1 && container[i - 1] > container[i / 2 - 1]) { swap; i /= 2; }
RECURSIVE push_loop(_, _, _)
push_loop(w, q, i) ==
  IF i > 1 /\ Ok(w)
  THEN LET c  == Get(subscript(w, q, i - 1), q, i - 1)
           p  == Get(subscript(c, q, (i \div 2) - 1), q, (i \div 2) - 1)
           w1 == Use(p, c.ret, p.ret)
       IN IF Ok(w1) /\ c.ret > p.ret
          THEN push_loop(std_swap_T(subscript(subscript(w1, q, i - 1),
                                              q, (i \div 2) - 1),
                                    q, i - 1, (i \div 2) - 1),
                         q, i \div 2)
          ELSE w1
  ELSE w

\* void priority_queue::push(const T& t)
push(w, q, t) ==
  LET w1 == push_back(w, q, t)
  IN push_loop(w1, q, size(w1, q))

\* if (index) percolateDown(index);
push_move_loop_once(w, q, index) ==
  IF index # 0 /\ Ok(w) THEN percolateDown(w, q, index) ELSE w

\* while (index && percolateDown(index)) index /= 2;
RECURSIVE push_move_loop(_, _, _)
push_move_loop(w, q, index) ==
  IF index # 0 /\ Ok(w)
  THEN LET w1 == percolateDown(w, q, index)
       IN IF Ok(w1) /\ w1.changed
          THEN push_move_loop(w1, q, index \div 2)
          ELSE w1
  ELSE w

\* void priority_queue::push(T&& t)
push_move(w, q, t) ==
  LET w1 == push_back_move(w, q, t)
  IN push_move_loop(w1, q, size(w1, q) \div 2)

\* void swap(priority_queue& lhs, priority_queue& rhs)
swap(w, lhs, rhs) == std_swap_vector(w, lhs, rhs)

\* ------------------------------------------------------------- client calls
Void      == [kind |-> "void", val |-> 0]
Value(v)  == [kind |-> "value", val |-> v]
Threw     == [kind |-> "out_of_range", val |-> 0]
Crashed   == [kind |-> "crash", val |-> 0]

\* A call with two arguments beside the object, and with one (or none: 0).
CallWith(op, obj, arg, val) == [op |-> op, obj |-> obj, arg |-> arg, val |-> val]

Call(op, obj, arg) == CallWith(op, obj, arg, 0)

\* The state after a call that ran the program from World to W.  A call
\* that needs more addresses than the model has is not offered; one that
\* runs into undefined behaviour ends the program.
Step(W, c, res) ==
  /\ fault = "none"
  /\ ~W.oom
  /\ call' = c
  /\ acc' = W.acc
  /\ wild' = W.wild
  /\ pre' = [vec |-> vec, mem |-> mem]
  /\ IF W.fault = "none"
     THEN /\ vec' = W.vec
          /\ mem' = W.mem
          /\ fault' = "none"
          /\ result' = IF W.exc # "none" THEN Threw ELSE res
     ELSE /\ fault' = W.fault
          /\ result' = Crashed
          /\ UNCHANGED <<vec, mem>>

\* The same, by a client that holds no iterator in use.
Commit(W, c, res) == Step(W, c, res) /\ UNCHANGED walk

PushCopy(q, v) ==
  /\ q \in built
  /\ vec[q].numElements < MaxSize
  /\ Commit(push(World, q, v), Call("push", q, v), Void)
  /\ UNCHANGED <<built, input, popped>>

PushMove(q, v) ==
  /\ q \in built
  /\ vec[q].numElements < MaxSize
  /\ Commit(push_move(World, q, v), Call("push_move", q, v), Void)
  /\ UNCHANGED <<built, input, popped>>

Pop(q) ==
  /\ q \in built
  /\ Commit(pop(World, q), Call("pop", q, 0), Void)
  /\ UNCHANGED <<built, input, popped>>

Top(q) ==
  /\ q \in built
  /\ LET W == top(World, q) IN Commit(W, Call("top", q, 0), Value(W.ret))
  /\ UNCHANGED <<built, input, popped>>

NoMem == [a \in Addr |-> FreeBuf]

\* priority_queue<int> lhs;
Init ==
  /\ vec = [o \in Objs |-> NoVec]
  /\ mem = NoMem
  /\ built = {"lhs"}
  /\ call = Call("ctor", "lhs", 0)
  /\ result = Void
  /\ acc = {}
  /\ fault = "none"
  /\ pre = [vec |-> [o \in Objs |-> NoVec], mem |-> NoMem]
  /\ input = <<>>
  /\ popped = <<>>
  /\ calls = 0
  /\ walk = NoWalk
  /\ wild = FALSE

Next ==
  \/ UNCHANGED calls /\ \E v \in Values : PushCopy("lhs", v)
  \/ UNCHANGED calls /\ \E v \in Values : PushMove("lhs", v)
  \/ UNCHANGED calls /\ Pop("lhs")
  \/ UNCHANGED calls /\ Top("lhs")

Spec == Init /\ [][Next]_vars

\* ------------------------------------------------------------- fill and drain
\* A client that pushes the values of `input` in order onto an empty queue
\* and then, until the queue is empty, reads top() and calls pop().
Scenario     == <<5, 3, 8, 1, 9, 2>>
ScenarioPops == <<9, 8, 5, 3, 2, 1>>

RECURSIVE SeqsOfLen(_)
SeqsOfLen(n) ==
  IF n = 0 THEN {<<>>}
  ELSE {Append(s, v) : s \in SeqsOfLen(n - 1), v \in Values}

DrainInputs == UNION {SeqsOfLen(n) : n \in 1..MaxLen} \cup {Scenario}

DrainInit ==
  /\ vec = [o \in Objs |-> NoVec]
  /\ mem = NoMem
  /\ built = {"lhs"}
  /\ call = Call("ctor", "lhs", 0)
  /\ result = Void
  /\ acc = {}
  /\ fault = "none"
  /\ pre = [vec |-> [o \in Objs |-> NoVec], mem |-> NoMem]
  /\ input \in DrainInputs
  /\ popped = <<>>
  /\ calls = 0
  /\ walk = NoWalk
  /\ wild = FALSE

Filling ==
  /\ popped = <<>>
  /\ call.op # "top"
  /\ vec["lhs"].numElements < Len(input)

DrainPushCopy ==
  /\ Filling
  /\ LET v == input[vec["lhs"].numElements + 1]
     IN Commit(push(World, "lhs", v), Call("push", "lhs", v), Void)
  /\ UNCHANGED <<built, input, popped>>

DrainPushMove ==
  /\ Filling
  /\ LET v == input[vec["lhs"].numElements + 1]
     IN Commit(push_move(World, "lhs", v), Call("push_move", "lhs", v), Void)
  /\ UNCHANGED <<built, input, popped>>

DrainTop ==
  /\ call.op # "top"
  /\ vec["lhs"].numElements > 0
  /\ vec["lhs"].numElements + Len(popped) = Len(input)
  /\ LET W == top(World, "lhs")
     IN /\ Commit(W, Call("top", "lhs", 0), Value(W.ret))
        /\ popped' = IF Ok(W) THEN Append(popped, W.ret) ELSE popped
  /\ UNCHANGED <<built, input>>

DrainPop ==
  /\ call.op = "top"
  /\ Commit(pop(World, "lhs"), Call("pop", "lhs", 0), Void)
  /\ UNCHANGED <<built, input, popped>>

DrainNext ==
  \/ UNCHANGED calls /\ DrainPushCopy
  \/ UNCHANGED calls /\ DrainPushMove
  \/ UNCHANGED calls /\ DrainTop
  \/ UNCHANGED calls /\ DrainPop

DrainSpec == DrainInit /\ [][DrainNext]_vars

\* ------------------------------------------------------------- two objects
Queues == {"lhs", "rhs"}

\* These clients make MaxCalls calls at most.
Budget == calls < MaxCalls /\ calls' = calls + 1

\* priority_queue<int> rhs;
ConstructDefault(q) ==
  /\ q \notin built
  /\ Commit(pq_ctor_default(World, q), Call("ctor", q, 0), Void)
  /\ built' = built \cup {q}
  /\ UNCHANGED <<input, popped>>

\* priority_queue<int> q(rhs);
CopyConstruct(q, rhs) ==
  /\ q \notin built
  /\ rhs \in built
  /\ Commit(pq_ctor_copy(World, q, rhs), Call("copy_ctor", q, 0), Void)
  /\ built' = built \cup {q}
  /\ UNCHANGED <<input, popped>>

\* priority_queue<int> q(std::move(rhs));
MoveConstruct(q, rhs) ==
  /\ q \notin built
  /\ rhs \in built
  /\ Commit(pq_ctor_move(World, q, rhs), Call("move_ctor", q, 0), Void)
  /\ built' = built \cup {q}
  /\ UNCHANGED <<input, popped>>

\* swap(a, b);
Swap(a, b) ==
  /\ a \in built
  /\ b \in built
  /\ a # b
  /\ Commit(swap(World, a, b), Call("swap", a, 0), Void)
  /\ UNCHANGED <<built, input, popped>>

\* One queue, a copy made of it at some moment, and push/pop on both.
CopyNext ==
  \/ Budget /\ \E q \in Queues, v \in Values : PushCopy(q, v)
  \/ Budget /\ \E q \in Queues, v \in Values : PushMove(q, v)
  \/ Budget /\ \E q \in Queues : Pop(q)
  \/ Budget /\ CopyConstruct("rhs", "lhs")

CopySpec == Init /\ [][CopyNext]_vars

\* Two queues, the second default- or move-constructed, push/pop and swap.
PairNext ==
  \/ Budget /\ \E q \in Queues, v \in Values : PushCopy(q, v)
  \/ Budget /\ \E q \in Queues, v \in Values : PushMove(q, v)
  \/ Budget /\ \E q \in Queues : Pop(q)
  \/ Budget /\ ConstructDefault("rhs")
  \/ Budget /\ MoveConstruct("rhs", "lhs")
  \/ Budget /\ \E a \in Queues, b \in Queues : Swap(a, b)

PairSpec == Init /\ [][PairNext]_vars

\* ------------------------------------------------------------- adoption
\* A client that builds an array from a literal sequence and constructs a
\* queue from it, then reads and pops.
ScenarioArray == <<3, 1, 4, 1, 5, 9, 2, 6>>

ArrayInputs == UNION {SeqsOfLen(n) : n \in 0..MaxLen} \cup {ScenarioArray}

AdoptInit ==
  /\ vec = [o \in Objs |-> NoVec]
  /\ mem = NoMem
  /\ built = {}
  /\ call = Call("none", "arr", 0)
  /\ result = Void
  /\ acc = {}
  /\ fault = "none"
  /\ pre = [vec |-> [o \in Objs |-> NoVec], mem |-> NoMem]
  /\ input = <<>>
  /\ popped = <<>>
  /\ calls = 0
  /\ walk = NoWalk
  /\ wild = FALSE

\* custom::vector<int> arr{...};
MakeArray(l) ==
  /\ "arr" \notin built
  /\ Commit(vector_ctor_list(World, "arr", l), Call("list_ctor", "arr", 0), Void)
  /\ built' = built \cup {"arr"}
  /\ UNCHANGED <<input, popped>>

\* priority_queue<int> q(std::move(arr));
AdoptMove(q, arr) ==
  /\ q \notin built
  /\ arr \in built
  /\ Commit(pq_ctor_vector_move(World, q, arr), Call("adopt_move", q, 0), Void)
  /\ built' = built \cup {q}
  /\ UNCHANGED <<input, popped>>

\* priority_queue<int> q(arr);
AdoptRef(q, arr) ==
  /\ q \notin built
  /\ arr \in built
  /\ Commit(pq_ctor_vector_ref(World, q, arr), Call("adopt_ref", q, 0), Void)
  /\ built' = built \cup {q}
  /\ UNCHANGED <<input, popped>>

AdoptNext ==
  \/ UNCHANGED calls /\ \E l \in ArrayInputs : MakeArray(l)
  \/ UNCHANGED calls /\ AdoptMove("lhs", "arr")
  \/ UNCHANGED calls /\ AdoptRef("lhs", "arr")
  \/ UNCHANGED calls /\ Top("lhs")
  \/ UNCHANGED calls /\ Pop("lhs")

AdoptSpec == AdoptInit /\ [][AdoptNext]_vars

\* ------------------------------------------------------------- iterator range
\* A client that constructs a queue from the range `input` and makes
\* MaxUse calls on it.
RangeInputs == UNION {SeqsOfLen(n) : n \in 0..MaxRange}

RangeInit ==
  /\ vec = [o \in Objs |-> NoVec]
  /\ mem = NoMem
  /\ built = {}
  /\ call = Call("none", "lhs", 0)
  /\ result = Void
  /\ acc = {}
  /\ fault = "none"
  /\ pre = [vec |-> [o \in Objs |-> NoVec], mem |-> NoMem]
  /\ input \in RangeInputs
  /\ popped = <<>>
  /\ calls = 0
  /\ walk = NoWalk
  /\ wild = FALSE

\* priority_queue<int> q(first, last);
RangeConstruct(q) ==
  /\ q \notin built
  /\ Commit(pq_ctor_range(World, q, input), Call("range_ctor", q, 0), Void)
  /\ built' = built \cup {q}
  /\ UNCHANGED <<input, popped>>

UseBudget == calls < MaxUse /\ calls' = calls + 1

RangeNext ==
  \/ UNCHANGED calls /\ RangeConstruct("lhs")
  \/ UseBudget /\ \E v \in Values : PushCopy("lhs", v)
  \/ UseBudget /\ \E v \in Values : PushMove("lhs", v)
  \/ UseBudget /\ Pop("lhs")
  \/ UseBudget /\ Top("lhs")

RangeSpec == RangeInit /\ [][RangeNext]_vars

\* ------------------------------------------------------------- private members
\* A queue whose storage is the range `input`, in range order, and one call
\* of a private member function on it.
SiftInputs == UNION {SeqsOfLen(n) : n \in 0..MaxSize}

SiftInit ==
  /\ vec = [o \in Objs |-> NoVec]
  /\ mem = NoMem
  /\ built = {}
  /\ call = Call("none", "lhs", 0)
  /\ result = Void
  /\ acc = {}
  /\ fault = "none"
  /\ pre = [vec |-> [o \in Objs |-> NoVec], mem |-> NoMem]
  /\ input \in SiftInputs
  /\ popped = <<>>
  /\ calls = 0
  /\ walk = NoWalk
  /\ wild = FALSE

\* q.percolateDown(indexHeap); the bool returned is 1 or 0
PercolateDown(q, indexHeap) ==
  /\ q \in built
  /\ call.op = "range_ctor"
  /\ LET W == percolateDown(World, q, indexHeap)
     IN Commit(W, Call("percolateDown", q, indexHeap),
               Value(IF W.changed THEN 1 ELSE 0))
  /\ UNCHANGED <<built, input, popped>>

\* q.heapify();
Heapify(q) ==
  /\ q \in built
  /\ call.op = "range_ctor"
  /\ Commit(heapify(World, q), Call("heapify", q, 0), Void)
  /\ UNCHANGED <<built, input, popped>>

SiftNext ==
  \/ UNCHANGED calls /\ RangeConstruct("lhs")
  \/ UNCHANGED calls /\ \E h \in 1..MaxSize : PercolateDown("lhs", h)
  \/ UNCHANGED calls /\ Heapify("lhs")

SiftSpec == SiftInit /\ [][SiftNext]_vars

\* A queue whose storage is the range `input`, in range order, used through
\* push and pop, or by one call of a private member function.
IndexNext ==
  \/ UNCHANGED calls /\ RangeConstruct("lhs")
  \/ UseBudget /\ \E v \in Values : PushCopy("lhs", v)
  \/ UseBudget /\ \E v \in Values : PushMove("lhs", v)
  \/ UseBudget /\ Pop("lhs")
  \/ UNCHANGED calls /\ \E h \in 1..MaxSize : PercolateDown("lhs", h)
  \/ UNCHANGED calls /\ Heapify("lhs")

IndexSpec == SiftInit /\ [][IndexNext]_vars

\* ------------------------------------------------------------- iterators
\* vector::iterator holds T* p: here the array a and the slot i pointed at.
\* iterator(size_t index, vector& v) : p = &(v.data[index])
iterator_at(w, o, index) == [a |-> w.vec[o].data, i |-> index]

\* vector::begin()
begin(w, o) == iterator_at(w, o, 0)

\* an end() at the capacity instead of the size
end_capacity(w, o) == iterator_at(w, o, capacity(w, o))

\* vector::end()
end(w, o) == iterator_at(w, o, size(w, o))

\* iterator::operator!=
ne(x, y) == IF x = y THEN FALSE ELSE TRUE

\* iterator::operator==
eq(x, y) == IF x # y THEN TRUE ELSE FALSE

\* iterator::operator++, prefix and postfix: ++p
increment(x) == [x EXCEPT !.i = @ + 1]

\* iterator::operator--, prefix and postfix: --p
decrement(x) == [x EXCEPT !.i = @ - 1]

\* iterator::operator++(int): ++p; return *this;
\* (it: the iterator afterwards, ret: the iterator returned)
post_increment(x) == [it |-> increment(x), ret |-> increment(x)]

\* iterator::operator--(int): --p; return *this;
post_decrement(x) == [it |-> decrement(x), ret |-> decrement(x)]

\* iterator::operator*, read through at once
deref(w, x) == Load(w, x.a, x.i)

\* ------------------------------------------------------------- arrays
\* Clients of custom::vector<int> itself.  A call that runs into undefined
\* behaviour has every outcome: see Astray.
\* A call made by the client, S being what it does when undefined behaviour
\* ends the program and Rs what it may do when the program runs on: if it
\* reaches no undefined behaviour it has its one outcome S, otherwise all.
Try(S, Rs, c) ==
  IF S.fault = "none"
  THEN Commit(S, c, Void)
  ELSE \/ Commit(S, c, Void)
       \/ \E R \in Rs : Commit(R, c, Void)

VPushBack(o, v) ==
  /\ o \in built
  /\ vec[o].numElements < MaxSize
  /\ Try(push_back(World, o, v),
         {push_back(Astray(TRUE, j), o, v) : j \in Values},
         Call("push_back", o, v))
  /\ UNCHANGED built

VPopBack(o) ==
  /\ o \in built
  /\ Try(pop_back(World, o),
         {pop_back(Astray(TRUE, j), o) : j \in Values},
         Call("pop_back", o, 0))
  /\ UNCHANGED built

\* custom::vector<int> arr;
StackInit ==
  /\ vec = [o \in Objs |-> NoVec]
  /\ mem = NoMem
  /\ built = {"arr"}
  /\ call = Call("ctor", "arr", 0)
  /\ result = Void
  /\ acc = {}
  /\ fault = "none"
  /\ pre = [vec |-> [o \in Objs |-> NoVec], mem |-> NoMem]
  /\ input = <<>>
  /\ popped = <<>>
  /\ calls = 0
  /\ walk = NoWalk
  /\ wild = FALSE

\* arr.push_back(v); the client notes v
StackPush(v) ==
  /\ VPushBack("arr", v)
  /\ input' = Append(input, v)
  /\ UNCHANGED popped

\* arr.pop_back(); the client notes the last element if there was one
StackPop ==
  /\ VPopBack("arr")
  /\ popped' = IF vec["arr"].numElements > 0
               THEN Append(popped, mem[vec["arr"].data].cells[vec["arr"].numElements])
               ELSE popped
  /\ UNCHANGED input

StackNext ==
  \/ Budget /\ \E v \in Values : StackPush(v)
  \/ Budget /\ StackPop

StackSpec == StackInit /\ [][StackNext]_vars

\* A client that fills arr by push_back and pop_back and then traverses it,
\* forwards or backwards, up to MaxUse times.
\* it = arr.begin();
Forward(o) ==
  /\ Step(World, Call("begin", o, 0), Void)
  /\ walk.dir \in {"none", "fwd_done", "bwd_done"}
  /\ walk.round < MaxUse
  /\ walk' = [dir |-> "fwd", it |-> begin(World, o), seen |-> <<>>,
              round |-> walk.round + 1]
  /\ UNCHANGED <<built, input, popped, calls>>

\* it != arr.end() holds: the client reads *it, then ++it
Advance(o) ==
  /\ walk.dir = "fwd"
  /\ ne(walk.it, end(World, o))
  /\ Step(deref(World, walk.it), Call("deref", o, walk.it.i),
          Value(deref(World, walk.it).ret))
  /\ walk' = [walk EXCEPT !.it = increment(@),
                          !.seen = Append(@, deref(World, walk.it).ret)]
  /\ UNCHANGED <<built, input, popped, calls>>

\* it = arr.end();
Backward(o) ==
  /\ Step(World, Call("end", o, 0), Void)
  /\ walk.dir \in {"none", "fwd_done", "bwd_done"}
  /\ walk.round < MaxUse
  /\ walk' = [dir |-> "bwd", it |-> end(World, o), seen |-> <<>>,
              round |-> walk.round + 1]
  /\ UNCHANGED <<built, input, popped, calls>>

\* it != arr.begin() holds: the client does --it, then reads *it
Retreat(o) ==
  /\ walk.dir = "bwd"
  /\ ne(walk.it, begin(World, o))
  /\ Step(deref(World, decrement(walk.it)),
          Call("deref", o, decrement(walk.it).i),
          Value(deref(World, decrement(walk.it)).ret))
  /\ walk' = [walk EXCEPT !.it = decrement(@),
                          !.seen = Append(@, deref(World, decrement(walk.it)).ret)]
  /\ UNCHANGED <<built, input, popped, calls>>

\* the loop condition it != arr.end() (forwards) or it != arr.begin()
\* (backwards) is false: the loop ends
Finish(o) ==
  /\ fault = "none"
  /\ \/ walk.dir = "fwd" /\ ~ne(walk.it, end(World, o))
        /\ walk' = [walk EXCEPT !.dir = "fwd_done"]
     \/ walk.dir = "bwd" /\ ~ne(walk.it, begin(World, o))
        /\ walk' = [walk EXCEPT !.dir = "bwd_done"]
  /\ UNCHANGED <<vec, mem, built, call, result, acc, fault, pre, input, popped,
                 calls, wild>>

IterNext ==
  \/ Budget /\ walk.dir = "none" /\ UNCHANGED <<input, popped>> /\ \E v \in Values : VPushBack("arr", v)
  \/ Budget /\ walk.dir = "none" /\ UNCHANGED <<input, popped>> /\ VPopBack("arr")
  \/ UNCHANGED calls /\ Forward("arr")
  \/ UNCHANGED calls /\ Advance("arr")
  \/ UNCHANGED calls /\ Backward("arr")
  \/ UNCHANGED calls /\ Retreat("arr")
  \/ UNCHANGED calls /\ Finish("arr")

IterSpec == StackInit /\ [][IterNext]_vars

\* A client that fills arr and then compares or steps iterators into it, once.
\* iterator(i, arr) == iterator(j, arr); the bool returned is 1 or 0
Compare(o, i, j) ==
  /\ walk.dir = "none"
  /\ i <= size(World, o) /\ j <= size(World, o)
  /\ Step(World, CallWith("eq", o, i, j),
          Value(IF eq(iterator_at(World, o, i), iterator_at(World, o, j))
                THEN 1 ELSE 0))
  /\ walk' = [walk EXCEPT !.dir = "ops"]
  /\ UNCHANGED <<built, input, popped, calls>>

\* it = iterator(i, arr); r = it++;  the position of r is returned
PostIncrement(o, i) ==
  /\ walk.dir = "none"
  /\ i < size(World, o)
  /\ Step(World, Call("post_increment", o, i),
          Value(post_increment(iterator_at(World, o, i)).ret.i))
  /\ walk' = [walk EXCEPT !.dir = "ops",
                          !.it = post_increment(iterator_at(World, o, i)).it]
  /\ UNCHANGED <<built, input, popped, calls>>

\* it = iterator(i, arr); r = it--;  the position of r is returned
PostDecrement(o, i) ==
  /\ walk.dir = "none"
  /\ 0 < i /\ i <= size(World, o)
  /\ Step(World, Call("post_decrement", o, i),
          Value(post_decrement(iterator_at(World, o, i)).ret.i))
  /\ walk' = [walk EXCEPT !.dir = "ops",
                          !.it = post_decrement(iterator_at(World, o, i)).it]
  /\ UNCHANGED <<built, input, popped, calls>>

Slots == 0..MaxSize

IterOpsNext ==
  \/ Budget /\ walk.dir = "none" /\ UNCHANGED <<input, popped>>
            /\ \E v \in Values : VPushBack("arr", v)
  \/ Budget /\ walk.dir = "none" /\ UNCHANGED <<input, popped>>
            /\ VPopBack("arr")
  \/ UNCHANGED calls /\ \E i, j \in Slots : Compare("arr", i, j)
  \/ UNCHANGED calls /\ \E i \in Slots : PostIncrement("arr", i)
  \/ UNCHANGED calls /\ \E i \in Slots : PostDecrement("arr", i)

IterOpsSpec == StackInit /\ [][IterOpsNext]_vars

\* Two arrays: arr, constructed in any of the ways that need no other
\* array, and rhs, default-constructed or constructed from arr; then
\* MaxOps calls of the public interface: any of it on arr, and on rhs what
\* changes an element, the size, or the whole array.
Arrays == {"arr", "rhs"}

Peer(o) == IF o = "arr" THEN "rhs" ELSE "arr"

Counts == 0..MaxArg

ListInputs == UNION {SeqsOfLen(n) : n \in Counts}

\* custom::vector<int> o;
VDefault(o) ==
  /\ o \notin built
  /\ Commit(vector_ctor_default(World, o), Call("ctor", o, 0), Void)
  /\ built' = built \cup {o}

\* custom::vector<int> o{...};
VList(o, l) ==
  /\ o \notin built
  /\ Commit(vector_ctor_list(World, o, l), Call("list_ctor", o, Len(l)), Void)
  /\ built' = built \cup {o}

\* custom::vector<int> o(num);
VSize(o, num) ==
  /\ o \notin built
  /\ Commit(vector_ctor_size(World, o, num), Call("size_ctor", o, num), Void)
  /\ built' = built \cup {o}

\* custom::vector<int> o(num, t);
VFill(o, num, t) ==
  /\ o \notin built
  /\ Commit(vector_ctor_fill(World, o, num, t), Call("fill_ctor", o, num), Void)
  /\ built' = built \cup {o}

\* custom::vector<int> o(rhs);
VCopy(o, rhs) ==
  /\ o \notin built
  /\ rhs \in built
  /\ Try(vector_ctor_copy(World, o, rhs),
         {vector_ctor_copy(Astray(TRUE, j), o, rhs) : j \in Values},
         Call("copy_ctor", o, 0))
  /\ built' = IF fault' = "none" THEN built \cup {o} ELSE built

\* custom::vector<int> o(std::move(rhs));
VMove(o, rhs) ==
  /\ o \notin built
  /\ rhs \in built
  /\ Commit(vector_ctor_move(World, o, rhs), Call("move_ctor", o, 0), Void)
  /\ built' = built \cup {o}

VReserve(o, n) ==
  /\ o \in built
  /\ Try(reserve(World, o, n),
         {reserve(Astray(TRUE, j), o, n) : j \in Values},
         Call("reserve", o, n))
  /\ UNCHANGED built

VResize(o, n) ==
  /\ o \in built
  /\ Try(resize(World, o, n),
         {resize(Astray(TRUE, j), o, n) : j \in Values},
         Call("resize", o, n))
  /\ UNCHANGED built

VResizeFill(o, n, t) ==
  /\ o \in built
  /\ Try(resize_fill(World, o, n, t),
         {resize_fill(Astray(TRUE, j), o, n, t) : j \in Values},
         CallWith("resize_fill", o, n, t))
  /\ UNCHANGED built

VClear(o) ==
  /\ o \in built
  /\ Try(clear(World, o),
         {clear(Astray(TRUE, j), o) : j \in Values},
         Call("clear", o, 0))
  /\ UNCHANGED built

VShrink(o) ==
  /\ o \in built
  /\ Try(shrink_to_fit(World, o),
         {shrink_to_fit(Astray(TRUE, j), o) : j \in Values},
         Call("shrink_to_fit", o, 0))
  /\ UNCHANGED built

\* o[index] = t;  with index < size()
VWrite(o, index, t) ==
  /\ o \in built
  /\ index < vec[o].numElements
  /\ Try(Put(subscript(World, o, index), o, index, t),
         {Put(subscript(Astray(TRUE, j), o, index), o, index, t) : j \in Values},
         Call("write", o, index))
  /\ UNCHANGED built

\* A call that returns a reference the client reads through at once: S and
\* Rs as in Try, the value read being the result.
TryRead(S, Rs, c) ==
  IF S.fault = "none"
  THEN Commit(S, c, Value(S.ret))
  ELSE \/ Commit(S, c, Value(S.ret))
       \/ \E R \in Rs : Commit(R, c, Value(R.ret))

\* x = o[index];  with any index
VAt(o, index) ==
  /\ o \in built
  /\ TryRead(Get(subscript(World, o, index), o, index),
             {Get(subscript(Astray(TRUE, j), o, index), o, index) : j \in Values},
             Call("at", o, index))
  /\ UNCHANGED built

\* x = o.front();
VFront(o) ==
  /\ o \in built
  /\ TryRead(Get(front(World, o), o, front(World, o).ret),
             {Get(front(Astray(TRUE, j), o), o, front(World, o).ret) : j \in Values},
             Call("front", o, 0))
  /\ UNCHANGED built

\* x = o.back();
VBack(o) ==
  /\ o \in built
  /\ TryRead(Get(back(World, o), o, back(World, o).ret),
             {Get(back(Astray(TRUE, j), o), o, back(World, o).ret) : j \in Values},
             Call("back", o, 0))
  /\ UNCHANGED built

\* o = rhs;
VAssignCopy(o, rhs) ==
  /\ o \in built
  /\ rhs \in built
  /\ Try(vector_assign_copy(World, o, rhs),
         {vector_assign_copy(Astray(TRUE, j), o, rhs) : j \in Values},
         Call("assign_copy", o, 0))
  /\ UNCHANGED built

\* o = o;
VAssignSelf(o) ==
  /\ o \in built
  /\ Try(vector_assign_copy(World, o, o),
         {vector_assign_copy(Astray(TRUE, j), o, o) : j \in Values},
         Call("assign_self", o, 0))
  /\ UNCHANGED built

\* o = std::move(rhs);
VAssignMove(o, rhs) ==
  /\ o \in built
  /\ rhs \in built
  /\ o # rhs
  /\ Try(vector_assign_move(World, o, rhs),
         {vector_assign_move(Astray(TRUE, j), o, rhs) : j \in Values},
         Call("assign_move", o, 0))
  /\ UNCHANGED built

\* o.swap(rhs);
VSwap(o, rhs) ==
  /\ o \in built
  /\ rhs \in built
  /\ Commit(vector_swap(World, o, rhs), Call("swap", o, 0), Void)
  /\ UNCHANGED built

\* o goes out of scope: o.~vector()
VDestroy(o) ==
  /\ o \in built
  /\ Try(vector_dtor(World, o),
         {vector_dtor(Astray(TRUE, j), o) : j \in Values},
         Call("dtor", o, 0))
  /\ built' = IF fault' = "none" THEN built \ {o} ELSE built

OpBudget == calls < MaxOps /\ calls' = calls + 1

Same == UNCHANGED <<input, popped>>

VecNext ==
  \/ UNCHANGED calls /\ Same /\ \E o \in Arrays : VDefault(o)
  \/ UNCHANGED calls /\ Same /\ \E l \in ListInputs : VList("arr", l)
  \/ UNCHANGED calls /\ Same /\ \E n \in Counts : VSize("arr", n)
  \/ UNCHANGED calls /\ Same /\ \E n \in Counts, t \in Values : VFill("arr", n, t)
  \/ UNCHANGED calls /\ Same /\ VCopy("rhs", "arr")
  \/ UNCHANGED calls /\ Same /\ VMove("rhs", "arr")
  \/ OpBudget /\ Same /\ \E o \in Arrays, v \in Values : VPushBack(o, v)
  \/ OpBudget /\ Same /\ \E o \in Arrays : VPopBack(o)
  \/ OpBudget /\ Same /\ \E n \in Counts : VReserve("arr", n)
  \/ OpBudget /\ Same /\ \E o \in Arrays, n \in Counts : VResize(o, n)
  \/ OpBudget /\ Same /\ \E n \in Counts, t \in Values : VResizeFill("arr", n, t)
  \/ OpBudget /\ Same /\ VClear("arr")
  \/ OpBudget /\ Same /\ VShrink("arr")
  \/ OpBudget /\ Same /\ \E o \in Arrays, i \in Counts, t \in Values : VWrite(o, i, t)
  \/ OpBudget /\ Same /\ \E i \in Counts : VAt("arr", i)
  \/ OpBudget /\ Same /\ VFront("arr")
  \/ OpBudget /\ Same /\ VBack("arr")
  \/ OpBudget /\ Same /\ \E o \in Arrays : VAssignCopy(o, Peer(o))
  \/ OpBudget /\ Same /\ \E o \in Arrays : VAssignSelf(o)
  \/ OpBudget /\ Same /\ \E o \in Arrays : VAssignMove(o, Peer(o))
  \/ OpBudget /\ Same /\ \E o \in Arrays : VSwap(o, Peer(o))
  \/ OpBudget /\ Same /\ \E o \in Arrays : VDestroy(o)

VecSpec == AdoptInit /\ [][VecNext]_vars

\* ------------------------------------------------------------- two implementations
\* The same calls made on arr, a custom::vector of vector.h, and on rhs, a
\* vector of temp.h, both default-constructed.
TwinInit ==
  /\ vec = [o \in Objs |-> NoVec]
  /\ mem = NoMem
  /\ built = {"arr", "rhs"}
  /\ call = Call("ctor", "arr", 0)
  /\ result = Void
  /\ acc = {}
  /\ fault = "none"
  /\ pre = [vec |-> [o \in Objs |-> NoVec], mem |-> NoMem]
  /\ input = <<>>
  /\ popped = <<>>
  /\ calls = 0
  /\ walk = NoWalk
  /\ wild = FALSE

\* arr.push_back(v); rhs.push_back(v);
TwinPushBack(v) ==
  /\ vec["arr"].numElements < MaxSize
  /\ Commit(temp_push_back(push_back(World, "arr", v), "rhs", v),
            Call("push_back", "arr", v), Void)
  /\ UNCHANGED <<built, input, popped>>

\* arr.pop_back(); rhs.pop_back();
TwinPopBack ==
  /\ Commit(temp_pop_back(pop_back(World, "arr"), "rhs"),
            Call("pop_back", "arr", 0), Void)
  /\ UNCHANGED <<built, input, popped>>

\* arr.shrink_to_fit(); rhs.shrink_to_fit();
TwinShrink ==
  /\ Commit(temp_shrink_to_fit(shrink_to_fit(World, "arr"), "rhs"),
            Call("shrink_to_fit", "arr", 0), Void)
  /\ UNCHANGED <<built, input, popped>>

TwinNext ==
  \/ Budget /\ \E v \in Values : TwinPushBack(v)
  \/ Budget /\ TwinPopBack
  \/ Budget /\ TwinShrink

TwinSpec == TwinInit /\ [][TwinNext]_vars

\* ------------------------------------------------------------- observations
\* A snapshot is the objects and the free store at one moment.
Now == [vec |-> vec, mem |-> mem]

\* In snapshot s, o's fields describe a live buffer holding its elements.
Backed(s, o) ==
  \/ s.vec[o].numElements = 0
  \/ /\ s.vec[o].data # NULL
     /\ s.mem[s.vec[o].data].live
     /\ s.vec[o].numElements <= Len(s.mem[s.vec[o].data].cells)

\* The live elements of o in snapshot s, by storage index (1-based here:
\* Elements(s, o)[k + 1] is storage index k).
Elements(s, o) ==
  IF s.vec[o].numElements = 0 \/ ~Backed(s, o) THEN <<>>
  ELSE SubSeq(s.mem[s.vec[o].data].cells, 1, s.vec[o].numElements)

Range(s) == {s[k] : k \in 1..Len(s)}

\* How many times v occurs in s; two sequences hold the same multiset.
Count(s, v)   == Cardinality({k \in 1..Len(s) : s[k] = v})
SameBag(s, t) == \A v \in Range(s) \cup Range(t) : Count(s, v) = Count(t, v)

MaxOf(s) == CHOOSE x \in Range(s) : \A k \in 1..Len(s) : s[k] <= x

\* heap index i > 1: the value at heap index i/2 is >= the value at i
IsHeap(s) == \A i \in 2..Len(s) : s[i \div 2] >= s[i]

Returned == fault = "none" /\ result.kind # "crash"

\* ------------------------------------------------------------- C1
\* C1: starting from a default-constructed queue, after every push (either
\* overload) and pop the live storage is a max-heap: the value at heap index
\* i/2 is >= the value at heap index i, for every 1 < i <= size(); and no
\* call ran into undefined behaviour getting there.
ThmC1_MaxHeap ==
  /\ fault = "none"
  /\ Backed(Now, "lhs")
  /\ IsHeap(Elements(Now, "lhs"))

\* A pop that percolated the new root down two levels.
WitC1_PopPercolated ==
  /\ call.op = "pop"
  /\ vec["lhs"].numElements = 4
  /\ 3 \in acc
  /\ Elements(Now, "lhs")[1] > Elements(Now, "lhs")[4]

\* ------------------------------------------------------------- C2
\* C2: on a non-empty queue top() returns a value >= every live element,
\* and changes neither the container's fields nor any stored element.
ThmC2_TopIsMax ==
  (call.op = "top" /\ pre.vec["lhs"].numElements > 0)
  => /\ Returned
     /\ result = Value(MaxOf(Elements(pre, "lhs")))
     /\ \A k \in 1..Len(Elements(Now, "lhs")) : Elements(Now, "lhs")[k] <= result.val
     /\ Now = pre

\* top() answered on a queue of three elements, not all equal.
WitC2_TopOfThree ==
  /\ call.op = "top"
  /\ vec["lhs"].numElements = 3
  /\ result.kind = "value"
  /\ \E k \in 1..3 : Elements(Now, "lhs")[k] < result.val

\* ------------------------------------------------------------- C5
\* C5: pop() on a non-empty queue takes size() down by exactly one and the
\* multiset of elements down by exactly one copy of the value top() would
\* have returned (the maximum); push(v) takes size() up by exactly one and
\* adds exactly one copy of v.
ThmC5_Multiset ==
  /\ (call.op = "pop" /\ pre.vec["lhs"].numElements > 0)
     => /\ Returned
        /\ vec["lhs"].numElements = pre.vec["lhs"].numElements - 1
        /\ Elements(pre, "lhs")[1] = MaxOf(Elements(pre, "lhs"))
        /\ SameBag(Append(Elements(Now, "lhs"), Elements(pre, "lhs")[1]),
                   Elements(pre, "lhs"))
  /\ (call.op \in {"push", "push_move"})
     => /\ Returned
        /\ vec["lhs"].numElements = pre.vec["lhs"].numElements + 1
        /\ SameBag(Elements(Now, "lhs"), Append(Elements(pre, "lhs"), call.arg))

\* A pop that took one of two copies of the maximum and left three elements.
WitC5_PopLeftThree ==
  /\ call.op = "pop"
  /\ vec["lhs"].numElements = 3
  /\ pre.vec["lhs"].numElements = 4
  /\ Elements(Now, "lhs")[1] = Elements(pre, "lhs")[1]

\* ------------------------------------------------------------- C6
\* C6: top() on an empty queue, never filled or emptied by pops, throws
\* std::out_of_range instead of returning a value, and leaves the queue
\* empty and as it was.
ThmC6_TopEmptyThrows ==
  (call.op = "top" /\ pre.vec["lhs"].numElements = 0)
  => /\ fault = "none"
     /\ result = Threw
     /\ vec["lhs"].numElements = 0
     /\ Now = pre

\* top() threw on a queue that pops had emptied.
WitC6_ThrewAfterPops ==
  /\ call.op = "top"
  /\ result = Threw
  /\ vec["lhs"].numElements = 0
  /\ vec["lhs"].numCapacity > 0

\* ------------------------------------------------------------- C7
\* C7: pop() on an empty queue does not fail, passes no index to the
\* container, and leaves size() == 0 and the capacity (and everything else)
\* as they were; so any number of pops in a row do.
ThmC7_PopEmptyNoOp ==
  (call.op = "pop" /\ pre.vec["lhs"].numElements = 0)
  => /\ fault = "none"
     /\ result = Void
     /\ acc = {}
     /\ vec["lhs"].numElements = 0
     /\ vec["lhs"].numCapacity = pre.vec["lhs"].numCapacity
     /\ Now = pre

\* pop() returned on an empty queue that still holds a buffer.
WitC7_PopOnEmptied ==
  /\ call.op = "pop"
  /\ result = Void
  /\ pre.vec["lhs"].numElements = 0
  /\ vec["lhs"].numElements = 0
  /\ vec["lhs"].numCapacity > 0

\* ------------------------------------------------------------- C3
Drained == Len(popped) = Len(input) /\ call.op = "pop"

\* C3: n values pushed in any order onto an empty queue, then top() and
\* pop() n times: the values read are in non-increasing order, they are the
\* n values pushed, and the queue ends empty; and 5,3,8,1,9,2 comes out as
\* 9,8,5,3,2,1.
ThmC3_DrainSorted ==
  /\ fault = "none"
  /\ \A i \in 1..Len(popped) : \A j \in i..Len(popped) : popped[i] >= popped[j]
  /\ Drained => /\ vec["lhs"].numElements = 0
                /\ SameBag(popped, input)
  /\ (Drained /\ input = Scenario) => popped = ScenarioPops

\* The scenario of the specification, drained.
WitC3_ScenarioDrained ==
  /\ Drained
  /\ input = Scenario
  /\ popped = ScenarioPops
  /\ vec["lhs"].numElements = 0

\* ------------------------------------------------------------- C4
\* C4: priority_queue(custom::vector<T>&&) adopts all of the array's
\* elements (size() is the array's former size, the same multiset) and
\* leaves them in max-heap order, so the root is the array's maximum; from
\* [3,1,4,1,5,9,2,6] the root is 9.
CexC4_AdoptHeapifies ==
  call.op = "adopt_move"
  => /\ Returned
     /\ vec["lhs"].numElements = pre.vec["arr"].numElements
     /\ Backed(Now, "lhs")
     /\ SameBag(Elements(Now, "lhs"), Elements(pre, "arr"))
     /\ IsHeap(Elements(Now, "lhs"))
     /\ Elements(pre, "arr") = ScenarioArray => Elements(Now, "lhs")[1] = 9

\* ------------------------------------------------------------- C8
Other(q) == IF q = "lhs" THEN "rhs" ELSE "lhs"

\* The live elements of o in the world w of a running call.
ElementsOf(w, o) == Elements([vec |-> w.vec, mem |-> w.mem], o)

\* C8: swap(a, b) leaves a holding exactly the elements, in storage order,
\* that b held and b those that a held, whichever of them are empty; and a
\* second swap(a, b) gives both back what they held.
CexC8_SwapExchanges ==
  /\ call.op = "swap"
     => /\ Returned
        /\ Backed(Now, "lhs") /\ Backed(Now, "rhs")
        /\ Elements(Now, call.obj) = Elements(pre, Other(call.obj))
        /\ Elements(Now, Other(call.obj)) = Elements(pre, call.obj)
  /\ (built = {"lhs", "rhs"} /\ fault = "none")
     => LET W == swap(swap(World, "lhs", "rhs"), "lhs", "rhs")
        IN /\ Ok(W)
           /\ ElementsOf(W, "lhs") = Elements(Now, "lhs")
           /\ ElementsOf(W, "rhs") = Elements(Now, "rhs")

\* ------------------------------------------------------------- C9
\* C9: a copy-constructed queue has the source's size and elements in the
\* same storage order (so it is a heap as the source is), the source is as
\* it was, and from then on a push or pop on either queue changes nothing
\* of the other.
ThmC9_CopyIndependent ==
  /\ fault = "none"
  /\ call.op = "copy_ctor"
     => /\ vec["rhs"].numElements = pre.vec["lhs"].numElements
        /\ Backed(Now, "rhs")
        /\ Elements(Now, "rhs") = Elements(pre, "lhs")
        /\ IsHeap(Elements(Now, "rhs"))
        /\ vec["lhs"] = pre.vec["lhs"]
        /\ Backed(Now, "lhs")
        /\ Elements(Now, "lhs") = Elements(pre, "lhs")
  /\ ("rhs" \in built /\ call.op \in {"push", "push_move", "pop"})
     => /\ vec[Other(call.obj)] = pre.vec[Other(call.obj)]
        /\ Backed(Now, Other(call.obj))
        /\ Elements(Now, Other(call.obj)) = Elements(pre, Other(call.obj))
        /\ Backed(Now, call.obj)

\* The source was pushed onto after a copy of two elements was made of it.
WitC9_PushAfterCopy ==
  /\ "rhs" \in built
  /\ call = Call("push", "lhs", MaxVal)
  /\ vec["rhs"].numElements = 2
  /\ vec["lhs"].numElements = 3
  /\ Elements(Now, "lhs")[1] # Elements(Now, "rhs")[1]

\* ------------------------------------------------------------- C10
\* C10: a move-constructed queue has the source's former size and elements
\* in the same storage order, and the source is left empty.
CexC10_MoveTransfers ==
  call.op = "move_ctor"
  => /\ Returned
     /\ vec["rhs"].numElements = pre.vec["lhs"].numElements
     /\ Backed(Now, "rhs")
     /\ Elements(Now, "rhs") = Elements(pre, "lhs")
     /\ vec["lhs"].numElements = 0

\* ------------------------------------------------------------- C11
\* C11: between public operations the live storage of a queue is a max-heap
\* whichever constructor built it; a queue built from an iterator range over
\* arbitrary values has its maximum at the root, and top() returns it, before
\* and after any push and pop.
CexC11_HeapFromRange ==
  "lhs" \in built
  => /\ Returned
     /\ Backed(Now, "lhs")
     /\ IsHeap(Elements(Now, "lhs"))
     /\ vec["lhs"].numElements > 0
        => Elements(Now, "lhs")[1] = MaxOf(Elements(Now, "lhs"))
     /\ (call.op = "top" /\ vec["lhs"].numElements > 0)
        => result = Value(MaxOf(Elements(Now, "lhs")))

\* ------------------------------------------------------------- C12
\* C12: a queue constructed from an iterator range of n elements holds
\* exactly those n elements, storage index k holding the k-th of the range,
\* with size() == n and capacity exactly n.
ThmC12_RangeInOrder ==
  call.op = "range_ctor"
  => /\ Returned
     /\ vec["lhs"].numElements = Len(input)
     /\ vec["lhs"].numCapacity = Len(input)
     /\ Backed(Now, "lhs")
     /\ Elements(Now, "lhs") = input
     /\ vec["lhs"].data # NULL => Len(mem[vec["lhs"].data].cells) = Len(input)

\* A queue constructed from a range of MaxRange elements in ascending order.
WitC12_RangeOfThree ==
  /\ call.op = "range_ctor"
  /\ Len(input) = MaxRange
  /\ input[1] < input[MaxRange]
  /\ vec["lhs"].numCapacity = MaxRange
  /\ Elements(Now, "lhs") = input

\* ------------------------------------------------------------- C13
\* C13: priority_queue(custom::vector<T>&) adopts the array's elements
\* without reordering: the queue's size is the array's size and storage
\* index k holds the array's element k.
CexC13_AdoptRefKeeps ==
  call.op = "adopt_ref"
  => /\ Returned
     /\ vec["lhs"].numElements = pre.vec["arr"].numElements
     /\ Backed(Now, "lhs")
     /\ Elements(Now, "lhs") = Elements(pre, "arr")

\* ------------------------------------------------------------- C15
\* C15: after any sequence of push_back and pop_back on a default-
\* constructed array, size() is the number of push_back calls minus the
\* number of pop_back calls made on a non-empty array, capacity() >= size(),
\* and a pop_back leaves capacity() (and the buffer) as it was.
ThmC15_SizeCounts ==
  /\ fault = "none"
  /\ vec["arr"].numElements = Len(input) - Len(popped)
  /\ vec["arr"].numCapacity >= vec["arr"].numElements
  /\ Backed(Now, "arr")
  /\ call.op = "pop_back"
     => /\ vec["arr"].numCapacity = pre.vec["arr"].numCapacity
        /\ vec["arr"].data = pre.vec["arr"].data
        /\ mem = pre.mem

\* pop_back called on an array that pushes had filled and pops had emptied.
WitC15_PopOnEmptied ==
  /\ call.op = "pop_back"
  /\ pre.vec["arr"].numElements = 0
  /\ Len(input) = 2
  /\ Len(popped) = 2
  /\ vec["arr"].numCapacity = 2

\* ------------------------------------------------------------- C14
\* C14: numElements <= numCapacity in every state an array reaches by any
\* constructor followed by any sequence of public operations.
CexC14_SizeWithinCapacity ==
  \A o \in Arrays : vec[o].numElements <= vec[o].numCapacity

\* ------------------------------------------------------------- C16
\* k calls of push_back(0) on a default-constructed array
RECURSIVE PushedTimes(_)
PushedTimes(k) ==
  IF k = 0
  THEN [World EXCEPT !.vec = [o \in Objs |-> NoVec], !.mem = NoMem]
  ELSE push_back(PushedTimes(k - 1), "arr", 0)

ScenarioCapacities == <<1, 2, 4, 4, 8, 8, 8, 8>>

\* C16: push_back changes the capacity only when numElements == numCapacity,
\* then to 1 from 0 and to twice the old capacity otherwise; the elements
\* keep their values and places and the new value is the last element;
\* eight push_back calls on a default array give capacities 1,2,4,4,8,8,8,8.
CexC16_GrowthPolicy ==
  /\ call.op = "push_back"
     => /\ Returned
        /\ vec[call.obj].numCapacity =
             IF pre.vec[call.obj].numElements # pre.vec[call.obj].numCapacity
             THEN pre.vec[call.obj].numCapacity
             ELSE IF pre.vec[call.obj].numCapacity = 0 THEN 1
             ELSE 2 * pre.vec[call.obj].numCapacity
        /\ vec[call.obj].numElements = pre.vec[call.obj].numElements + 1
        /\ Backed(Now, call.obj)
        /\ Backed(pre, call.obj)
           => Elements(Now, call.obj) = Append(Elements(pre, call.obj), call.arg)
  /\ \A k \in 1..8 : /\ Ok(PushedTimes(k))
                     /\ capacity(PushedTimes(k), "arr") = ScenarioCapacities[k]

\* ------------------------------------------------------------- C17
\* C17: reserve(n) with n <= capacity() changes nothing: capacity(), size()
\* and every live element are as before, also when n < size().
CexC17_ReserveWithinCapacity ==
  (call.op = "reserve" /\ call.arg <= pre.vec[call.obj].numCapacity)
  => /\ Returned
     /\ vec[call.obj].numCapacity = pre.vec[call.obj].numCapacity
     /\ vec[call.obj].numElements = pre.vec[call.obj].numElements
     /\ Backed(pre, call.obj)
        => /\ Backed(Now, call.obj)
           /\ Elements(Now, call.obj) = Elements(pre, call.obj)

\* ------------------------------------------------------------- C18
\* C18: after shrink_to_fit() capacity() == size(), the live elements and
\* their order are as before, and an array of size 0 holds no buffer.
CexC18_ShrinkToFit ==
  call.op = "shrink_to_fit"
  => /\ Returned
     /\ vec[call.obj].numElements = pre.vec[call.obj].numElements
     /\ vec[call.obj].numCapacity = vec[call.obj].numElements
     /\ Backed(pre, call.obj)
        => /\ Backed(Now, call.obj)
           /\ Elements(Now, call.obj) = Elements(pre, call.obj)
     /\ vec[call.obj].numElements = 0 => vec[call.obj].data = NULL

\* ------------------------------------------------------------- C19
\* C19: move construction from a source, and move assignment of a source
\* into any destination, give the destination the source's former size,
\* capacity and elements, backed by a live buffer, and leave the source with
\* size() == 0 and capacity() == 0.
CexC19_MoveTakesAll ==
  call.op \in {"move_ctor", "assign_move"}
  => /\ Returned
     /\ vec[call.obj].numElements = pre.vec[Peer(call.obj)].numElements
     /\ vec[call.obj].numCapacity = pre.vec[Peer(call.obj)].numCapacity
     /\ Backed(pre, Peer(call.obj))
        => /\ Backed(Now, call.obj)
           /\ Elements(Now, call.obj) = Elements(pre, Peer(call.obj))
     /\ (pre.vec[Peer(call.obj)].data # NULL /\ pre.mem[pre.vec[Peer(call.obj)].data].live)
        => (vec[call.obj].data # NULL /\ mem[vec[call.obj].data].live)
     /\ vec[Peer(call.obj)].numElements = 0
     /\ vec[Peer(call.obj)].numCapacity = 0

\* ------------------------------------------------------------- C20
\* C20: a copy-constructed array has the source's size and elements in
\* order and a capacity equal to the source's size; the source is as it
\* was; and an element write, push_back, pop_back or resize on the copy
\* leaves the source's size, capacity and elements as they were.
CexC20_DeepCopy ==
  /\ call.op = "copy_ctor"
     => /\ Returned
        /\ vec["rhs"].numElements = pre.vec["arr"].numElements
        /\ vec["rhs"].numCapacity = pre.vec["arr"].numElements
        /\ vec["arr"] = pre.vec["arr"]
        /\ Backed(pre, "arr")
           => /\ Backed(Now, "rhs")
              /\ Elements(Now, "rhs") = Elements(pre, "arr")
              /\ Elements(Now, "arr") = Elements(pre, "arr")
  /\ (call.obj = "rhs" /\ call.op \in {"write", "push_back", "pop_back", "resize"}
        /\ Backed(pre, "arr"))
     => /\ vec["arr"] = pre.vec["arr"]
        /\ Backed(Now, "arr")
        /\ Elements(Now, "arr") = Elements(pre, "arr")

\* ------------------------------------------------------------- C21
\* C21: after a = b, a has b's size and b's elements in order and b is as
\* it was, whatever the two held; a's capacity is the one it had when that
\* was enough for b's size and exactly b's size otherwise; and a = a leaves
\* a's size, capacity and elements as they were.
CexC21_CopyAssign ==
  /\ call.op = "assign_copy"
     => /\ Returned
        /\ vec[call.obj].numElements = pre.vec[Peer(call.obj)].numElements
        /\ vec[call.obj].numCapacity =
             IF pre.vec[call.obj].numCapacity >= pre.vec[Peer(call.obj)].numElements
             THEN pre.vec[call.obj].numCapacity
             ELSE pre.vec[Peer(call.obj)].numElements
        /\ vec[Peer(call.obj)] = pre.vec[Peer(call.obj)]
        /\ Backed(pre, Peer(call.obj))
           => /\ Backed(Now, call.obj)
              /\ Elements(Now, call.obj) = Elements(pre, Peer(call.obj))
              /\ Elements(Now, Peer(call.obj)) = Elements(pre, Peer(call.obj))
  /\ call.op = "assign_self"
     => /\ Returned
        /\ vec[call.obj] = pre.vec[call.obj]
        /\ Backed(pre, call.obj)
           => /\ Backed(Now, call.obj)
              /\ Elements(Now, call.obj) = Elements(pre, call.obj)

\* ------------------------------------------------------------- C22
\* C22: operator[](i) with i >= size(), and front() and back() on an empty
\* array, signal out-of-range to the caller instead of handing out a slot
\* that holds no live element; and no such access changes the array.
CexC22_AccessChecked ==
  /\ (call.op = "at" /\ call.arg >= pre.vec[call.obj].numElements)
     => /\ fault = "none"
        /\ result = Threw
  /\ (call.op \in {"front", "back"} /\ pre.vec[call.obj].numElements = 0)
     => /\ fault = "none"
        /\ result = Threw
  /\ call.op \in {"at", "front", "back"} => Now = pre

\* ------------------------------------------------------------- C23
\* The first n elements of s, or all of s if it has fewer.
Prefix(s, n) == SubSeq(s, 1, IF n < Len(s) THEN n ELSE Len(s))

\* C23: resize(n, value) sets size() to n, keeps the first min(old size, n)
\* elements, makes every slot in [old size, n) equal to value whether or not
\* n exceeds the capacity, and changes the capacity only when n exceeds it;
\* resize(n) does the same with 0, the default value, in the new slots.
CexC23_Resize ==
  (call.op \in {"resize", "resize_fill"} /\ Backed(pre, call.obj))
  => /\ Returned
     /\ vec[call.obj].numElements = call.arg
     /\ Backed(Now, call.obj)
     /\ Prefix(Elements(Now, call.obj), pre.vec[call.obj].numElements)
          = Prefix(Elements(pre, call.obj), call.arg)
     /\ \A k \in (pre.vec[call.obj].numElements + 1)..Len(Elements(Now, call.obj)) :
          Elements(Now, call.obj)[k] = call.val
     /\ call.arg <= pre.vec[call.obj].numCapacity
        => vec[call.obj].numCapacity = pre.vec[call.obj].numCapacity

\* ------------------------------------------------------------- C24
\* The arrays whose data points at the buffer at address a.
Owners(a) == {o \in Arrays : vec[o].data = a}

\* C24: in every state each buffer that is allocated and not yet released
\* is referenced by exactly one array, never by two and never by none.
CexC24_OneOwner ==
  \A a \in Addr : mem[a].live => Cardinality(Owners(a)) = 1

\* ------------------------------------------------------------- C25
\* Heap index i lies in the subtree rooted at heap index h.
RECURSIVE InSubtree(_, _)
InSubtree(i, h) == i = h \/ (i > h /\ InSubtree(i \div 2, h))

\* The part of s in the subtree rooted at h is a heap.
SubHeap(s, h) ==
  \A i \in 1..Len(s) : (i # h /\ InSubtree(i, h)) => s[i \div 2] >= s[i]

\* The child of h that percolateDown is to select in s: the right one only
\* if it exists and is strictly greater than the left one.
Selected(s, h) ==
  IF 2 * h + 1 <= Len(s) /\ s[2 * h] < s[2 * h + 1] THEN 2 * h + 1 ELSE 2 * h

\* C25: percolateDown(h), h >= 1.  Without a child within size() nothing
\* changes and it returns false.  Otherwise the selected child is swapped
\* with the parent exactly when it is strictly greater, and the work goes on
\* from the child's position only; it returns true exactly when the element
\* at h was swapped.  If both subtrees of h were heaps the subtree of h is a
\* heap afterwards, and nothing outside it is touched.
ThmC25_PercolateDown ==
  call.op = "percolateDown"
  => LET s == Elements(pre, "lhs")
         t == Elements(Now, "lhs")
         h == call.arg
     IN /\ Returned
        /\ Backed(Now, "lhs")
        /\ vec = pre.vec
        /\ Len(t) = Len(s)
        /\ SameBag(s, t)
        /\ 2 * h > Len(s) => (Now = pre /\ result = Value(0) /\ acc = {})
        /\ 2 * h <= Len(s)
           => IF s[h] < s[Selected(s, h)]
              THEN /\ result = Value(1)
                   /\ t[h] = s[Selected(s, h)]
                   /\ \A i \in 1..Len(s) :
                        (i # h /\ ~InSubtree(i, Selected(s, h))) => t[i] = s[i]
              ELSE /\ result = Value(0)
                   /\ Now = pre
        /\ \A i \in 1..Len(s) : ~InSubtree(i, h) => t[i] = s[i]
        /\ (SubHeap(s, 2 * h) /\ SubHeap(s, 2 * h + 1)) => SubHeap(t, h)

\* percolateDown(1) chose the left child on a tie and carried the old root
\* two levels down.
WitC25_TwoLevels ==
  /\ call = Call("percolateDown", "lhs", 1)
  /\ result = Value(1)
  /\ Len(input) >= 4
  /\ input[2] = input[3]
  /\ input[1] < input[4]
  /\ Elements(Now, "lhs")[2] = input[4]
  /\ Elements(Now, "lhs")[4] = input[1]

\* ------------------------------------------------------------- C26
\* C26: heapify() on storage holding any values in any order ends with the
\* max-heap property over the whole storage, the same multiset of elements
\* and the same size(), having indexed live slots only.
ThmC26_Heapify ==
  call.op = "heapify"
  => /\ Returned
     /\ Backed(Now, "lhs")
     /\ vec = pre.vec
     /\ IsHeap(Elements(Now, "lhs"))
     /\ SameBag(Elements(Now, "lhs"), input)
     /\ Elements(pre, "lhs") = input
     /\ \A k \in acc : 0 <= k /\ k < Len(input)

\* heapify() turned MaxSize values in ascending order into a heap.
WitC26_AscendingHeapified ==
  /\ call.op = "heapify"
  /\ Len(input) = MaxSize
  /\ \A k \in 1..(MaxSize - 1) : input[k] <= input[k + 1]
  /\ input[1] < input[2]
  /\ input[MaxSize - 1] < input[MaxSize]
  /\ IsHeap(Elements(Now, "lhs"))

\* ------------------------------------------------------------- C27
Reverse(s) == [k \in 1..Len(s) |-> s[Len(s) - k + 1]]

\* C27: a traversal from begin() by increments, ended when the iterator no
\* longer differs from end(), makes exactly size() steps and reads the live
\* elements 0..size()-1 once each in index order; every new traversal does
\* the same; a traversal from end() by decrements, ended at begin(), reads
\* them in reverse order.  The array is not changed by it.
ThmC27_Traversal ==
  LET e == Elements(Now, "arr")
      n == vec["arr"].numElements
      k == Len(walk.seen)
  IN /\ walk.dir # "none" => (Returned /\ Backed(Now, "arr") /\ k <= n)
     /\ call.op = "deref" => (Now = pre /\ result = Value(walk.seen[k]))
     /\ walk.dir = "fwd"
        => /\ walk.seen = Prefix(e, k)
           /\ ne(walk.it, end(World, "arr")) <=> k < n
     /\ walk.dir = "fwd_done" => walk.seen = e
     /\ walk.dir = "bwd"
        => /\ walk.seen = Prefix(Reverse(e), k)
           /\ ne(walk.it, begin(World, "arr")) <=> k < n
     /\ walk.dir = "bwd_done" => walk.seen = Reverse(e)

\* Three elements in a buffer of four, traversed forwards to the end and then
\* again backwards to the beginning.
WitC27_TwiceThrough ==
  /\ walk.round = 2
  /\ walk.dir = "bwd_done"
  /\ call.op = "deref"
  /\ vec["arr"].numCapacity = 4
  /\ walk.seen = <<2, 1, 0>>

\* ------------------------------------------------------------- C28
\* The world of a call made in snapshot s.
WorldAt(s) == [World EXCEPT !.vec = s.vec, !.mem = s.mem]

\* C28: on heap-ordered storage push(const T&) and push(T&&) of the same
\* value both return and leave the same storage, position by position (and
\* the same size and capacity).
ThmC28_PushOverloads ==
  (call.op \in {"push", "push_move"} /\ IsHeap(Elements(pre, call.obj)))
  => LET other == IF call.op = "push"
                  THEN push_move(WorldAt(pre), call.obj, call.arg)
                  ELSE push(WorldAt(pre), call.obj, call.arg)
     IN /\ Returned
        /\ Ok(other)
        /\ Len(Elements(Now, call.obj)) = Len(Elements(pre, call.obj)) + 1
        /\ Elements(Now, call.obj) = ElementsOf(other, call.obj)
        /\ vec[call.obj].numElements = other.vec[call.obj].numElements
        /\ vec[call.obj].numCapacity = other.vec[call.obj].numCapacity

\* push(T&&) of a value greater than the root onto four elements: the value
\* rises two levels to the root.
WitC28_RoseToRoot ==
  /\ call.op = "push_move"
  /\ Len(Elements(pre, "lhs")) = 4
  /\ Elements(pre, "lhs")[1] < call.arg
  /\ Elements(Now, "lhs")[1] = call.arg
  /\ Elements(Now, "lhs")[5] = Elements(pre, "lhs")[2]

\* ------------------------------------------------------------- C29
\* C29: no operation of the array indexes a slot outside the allocated length
\* of the buffer it addresses, and the buffer data references has exactly
\* numCapacity slots.
CexC29_InBounds ==
  /\ fault # "out_of_bounds"
  /\ \A o \in Arrays :
       (o \in built /\ vec[o].data # NULL /\ mem[vec[o].data].live)
       => Len(mem[vec[o].data].cells) = vec[o].numCapacity

\* ------------------------------------------------------------- C30
\* C30: no operation of the array reads, writes or releases a buffer that was
\* released before; after clear() in particular every later call acts on a
\* live buffer only.
CexC30_NoReleasedBuffer ==
  fault \notin {"use_after_free", "double_free"}

\* ------------------------------------------------------------- C31
\* C31: every storage index that push (either overload), pop, percolateDown
\* and heapify pass to the container lies in [0, size()) when it is passed,
\* whatever the queue holds, the empty and the one-element queue included;
\* pop on an empty queue passes no index at all (no front(), no back()).
ThmC31_IndicesInside ==
  call.op \in {"push", "push_move", "pop", "percolateDown", "heapify"}
  => /\ ~wild
     /\ Returned
     /\ \A k \in acc :
          /\ 0 <= k
          /\ k < vec[call.obj].numElements \/ k < pre.vec[call.obj].numElements
     /\ (call.op = "pop" /\ pre.vec[call.obj].numElements = 0) => acc = {}
     /\ (call.op = "pop" /\ pre.vec[call.obj].numElements = 1) => acc = {0}

\* pop() on a queue of one element: front() and back() are both slot 0, and
\* the next pop() finds the queue empty.
WitC31_PopLastThenEmpty ==
  /\ call.op = "pop"
  /\ pre.vec["lhs"].numElements = 0
  /\ pre.vec["lhs"].data # NULL
  /\ acc = {}
  /\ Len(input) = 1

\* ------------------------------------------------------------- C32
\* C32: a == b is true exactly when a and b designate the same position;
\* it++ and it-- return the position the iterator had before the step and
\* move the iterator by one.
CexC32_IteratorOperators ==
  /\ call.op = "eq" => result = Value(IF call.arg = call.val THEN 1 ELSE 0)
  /\ call.op = "post_increment"
     => (result = Value(call.arg) /\ walk.it.i = call.arg + 1)
  /\ call.op = "post_decrement"
     => (result = Value(call.arg) /\ walk.it.i = call.arg - 1)

\* ------------------------------------------------------------- C33
\* C33: after every step of a sequence of push_back, pop_back and
\* shrink_to_fit made on a default-constructed array of each implementation,
\* the two arrays have the same size(), the same capacity() and the same
\* elements in the same order.
ThmC33_TwoImplementations ==
  /\ Returned
  /\ Backed(Now, "arr") /\ Backed(Now, "rhs")
  /\ vec["arr"].numElements = vec["rhs"].numElements
  /\ vec["arr"].numCapacity = vec["rhs"].numCapacity
  /\ Elements(Now, "arr") = Elements(Now, "rhs")
  /\ Len(Elements(Now, "arr")) = vec["arr"].numElements

\* Three elements shrunk to capacity 3, then a fourth pushed: both arrays
\* grow to capacity 6.
WitC33_GrownAfterShrink ==
  /\ call.op = "push_back"
  /\ vec["rhs"].numElements = 4
  /\ vec["rhs"].numCapacity = 6
  /\ vec["arr"].numCapacity = 6
  /\ Elements(Now, "rhs")[1] # Elements(Now, "rhs")[4]

=============================================================================
